---- MODULE Spec2Model ----
(***************************************************************************)
(* hashq: a fixed table of lazily opened shared resources.                 *)
(*                                                                         *)
(* The model follows the HashQ/Resource snapshot of the package            *)
(* (src/unnamed/part_002, lines 1-227): New, HashQ.Clean, HashQ.Get,       *)
(* Resource.Clean, Resource.Lock, Resource.Unlock, Resource.touch and      *)
(* Resource.TryOpen, driven by callers that follow the usage of            *)
(* Request.Run (src/unnamed/part_000, src/unnamed/part_001) and by the     *)
(* ticker goroutine started in New.                                        *)
(*                                                                         *)
(* sync.RWMutex is modelled with Go's writer preference: once a writer     *)
(* has called Lock() new RLock() calls wait, and the writer gets in when   *)
(* the readers that were in have left.  sync.Once is modelled by its three *)
(* observable phases (not run, running, done).                             *)
(*                                                                         *)
(* HashQ.Clean reads res.active and res.modified without the slot's lock   *)
(* and touch() writes res.modified without it.  A racing word-sized read   *)
(* returns the value before or after the racing write, and time.Sub on     *)
(* monotonic readings depends on one word; both outcomes are produced here *)
(* by the interleaving of the atomic read and write steps.                 *)
(*                                                                         *)
(* Time is kept relative to the present: modified[s] is the age            *)
(* time.Now() - res.modified, which is all the code ever computes from     *)
(* res.modified, and ages beyond olderPeriod + 1 are not told apart.       *)
(***************************************************************************)
EXTENDS Integers, FiniteSets, Sequences, TLC

NumSlots == 2       \* size passed to New: len(hq.sharedMap)
NumCallers == 2     \* goroutines running Request.Run
olderPeriod == 1    \* hq.olderPeriod, in clock ticks

Sweeper == 0                \* the goroutine New starts
Callers == 1..NumCallers
Procs == {Sweeper} \cup Callers
Slots == 1..NumSlots        \* slot s is hq.sharedMap[s-1]
NoProc == -1
NoSlot == 0
emptyPt == 0                \* hq.emptyPt, the template handle
NoPt == -1                  \* the caller has no TryOpen result
Handles == 1..(NumSlots + NumCallers + 1)   \* addresses of opened handles
MaxAge == olderPeriod + 1

\* ---- New, Get and the estimator (SpecPool)
NumGetters == 2             \* goroutines calling hq.Get()
Getters == 1..NumGetters
MaxSize == 2                \* largest size passed to New
MaxStride == 3              \* largest spch passed to New
MaxElapsed == 2             \* clock ticks after New
MaxGets == 3                \* Get calls on a built pool
NilShared == -2             \* share == nil
incomeFreqTotal == 1000000  \* the seed of hq.curSpeed.incomeFreq
InitTimes == {0, incomeFreqTotal}   \* readings of the clock at the start

\* ---- the channel pool (SpecChan)
NumTasks == 2               \* goroutines running Task
Tasks == 1..NumTasks
MaxPool == 2                \* largest size passed to New
ChanCap == 1                \* capacity of the channel sch
maxVal == 10                \* Task calls Open(v) with v = rand.Intn(maxVal-1)+1
NoPool == <<-1>>            \* New has not returned yet
NoConn == 0

\* ---- Get calls at a constant rate (SpecRate)
MaxPeriod == 3              \* longest time between two Get calls
MaxRateGets == 8            \* Get calls of the stream
RateWindow == 4             \* Get calls after the first recalibration

\* ---- the channel pool with CanClose (SpecMonitor)
NumUsers == 2               \* goroutines using elements received from sch
Users == 1..NumUsers
MaxMon == 2                 \* largest size passed to New
TheEmpty == 1               \* the address held by the argument e of New
Elems == {TheEmpty}         \* addresses of the Shared objects of the program
NoElem == 0

VARIABLES
    Pt,         \* Pt[s]       res.Pt: emptyPt or an opened handle
    active,     \* active[s]   res.active
    open,       \* open[s]     res.open (sync.Once): "fresh", "running", "done"
    modified,   \* modified[s] time.Now() - res.modified, at most MaxAge
    readers,    \* readers[s]  callers inside res.mutex.RLock
    writer,     \* writer[s]   process inside res.mutex.Lock (waiting or in), or NoProc
    pc,         \* pc[p]       position of process p
    slot,       \* slot[p]     the *Resource a caller got from Get()
    got,        \* got[p]      Shared returned to p by TryOpen
    err,        \* err[p]      TryOpen returned a non-nil error to p
    cpos,       \* cpos[p]     loop index of p in Clean
    \* ---- history of the calls into the resource implementation
    genAcq,     \* genAcq[s]   Shared.Open calls since the last eviction of s
    genTry,     \* genTry[s]   TryOpen was called since the last eviction of s
    genRes,     \* genRes[s]   what Open returned since the last eviction: "none", "ok", "fail"
    released,   \* handles still referenced on which Close has been called
    failedGen,  \* failedGen[p] p's TryOpen failed and slot[p] was not evicted since
    lastClean,  \* the Resource.Clean run by the latest step, if it ran one
    \* ---- New, Get and the estimator hq.curSpeed (specification SpecPool)
    hq,         \* the *HashQ the callers hold: "unset", "nil", "zero", "built"
    args,       \* the arguments of New: share, size, spch
    newErr,     \* the error New returned: "none" (not called), "nil", "error"
    sharedMap,  \* hq.sharedMap: the sequence of *Resource
    resource,   \* resource[r]  the fields Pt, active, open of the Resource at r
    maxShared,  \* hq.maxShared
    curSpeed,   \* hq.curSpeed: Sum, Start, Last, incomeFreq, speedCheck
    clock,      \* time.Now().UnixNano()
    gpc,        \* gpc[g]      position of goroutine g inside hq.Get()
    reg,        \* reg[g]      values g has read: sum, now (inc) and f (genHash)
    ret,        \* ret[g]      what g's latest Get returned
    cleanRet,   \* how the call hq.Clean() ended, if it was made
    calls,      \* number of Get calls begun on the built pool
    overlapped, \* two Get calls were in progress at the same time
    \* ---- the channel pool and the test's Conn (specification SpecChan)
    csize,      \* the size argument of New
    pool,       \* h.pool: the sequence of *Conn, or NoPool before New
    ID,         \* ID[c]       c.ID
    one,        \* one[c]      c.one (sync.Once): "fresh" or "done"
    cread,      \* cread[c]    tasks inside c.mutex.RLock
    cwrite,     \* cwrite[c]   Close is inside c.mutex.Lock (waiting or in)
    ppc,        \* position of the goroutine running h.Produce
    pidx,       \* index of the range loop of Produce
    sch,        \* the buffered channel sch
    errch,      \* the value offered on the unbuffered channel errch
    errLog,     \* values Produce has sent on errch, and how many elements
                \* it had sent before each
    sentMod,    \* number of elements Produce has sent, modulo len(h.pool)
    lastSent,   \* the latest element sent and the count before it
    tpc,        \* tpc[t]      position of task t
    tconn,      \* tconn[t]    the *Conn task t received
    mpc,        \* position of the goroutine running h.Monitor
    mpos,       \* index of the range loop of Monitor
    \* ---- Get calls at a constant rate (specification SpecRate)
    period,     \* the time between two Get calls, 0 when there is no stream
    visited,    \* the indices genHash returned once incomeFreq was replaced
    since,      \* number of Get calls that found incomeFreq replaced
    \* ---- the channel pool with CanClose (specification SpecMonitor)
    hpool,      \* h.pool: the sequence of Shared (addresses)
    canAlways,  \* the implementation of CanClose returns true always
    opened,     \* opened[e]   the element e is open (not closed)
    uses,       \* uses[u]     the element user u is using, or NoElem
    vpc,        \* position of the goroutine running h.Monitor
    vpos,       \* index of the range loop of clean()
    vlog        \* the visits of the current pass: elem, can, closed

progVars == <<Pt, active, open, modified, readers, writer, pc, slot, got, err, cpos,
              genAcq, genTry, genRes, released, failedGen, lastClean>>

poolVars == <<hq, args, newErr, sharedMap, resource, maxShared, curSpeed, clock,
              gpc, reg, ret, cleanRet, calls, overlapped>>

chanVars == <<csize, pool, ID, one, cread, cwrite, ppc, pidx, sch, errch, errLog,
              sentMod, lastSent, tpc, tconn, mpc, mpos>>

rateVars == <<period, visited, since>>

monVars == <<hpool, canAlways, opened, uses, vpc, vpos, vlog>>

\* The variables of the other specifications.
extVars == <<poolVars, chanVars, rateVars, monVars>>

vars == <<progVars, poolVars, chanVars, rateVars, monVars>>

slotVars == <<Pt, active, open, modified, readers, writer>>
genVars == <<genAcq, genTry, genRes, released>>

NoClean == [by |-> NoProc, slot |-> NoSlot, old |-> FALSE, act |-> FALSE,
            pt |-> NoPt, held |-> {}, freed |-> {}]

\* The arguments of New when New is not called.
NoArgs == [share |-> NilShared, size |-> 0, spch |-> 0]

\* hq.curSpeed of the zero HashQ: no Speed.
NilSpeed == [Sum |-> 0, Start |-> 0, Last |-> 0, incomeFreq |-> 0, speedCheck |-> 0]

NoReg == [sum |-> 0, now |-> 0, f |-> 0]
NoRet == [out |-> "none", res |-> 0, n |-> 0, tried |-> FALSE]
NoSent == [k |-> -1, s |-> NoConn]

\* The goroutines of Get before their first call.
GettersIdle ==
    /\ gpc = [g \in Getters |-> "idle"]
    /\ reg = [g \in Getters |-> NoReg]
    /\ ret = [g \in Getters |-> NoRet]
    /\ cleanRet = "none"
    /\ calls = 0
    /\ overlapped = FALSE

\* The zero HashQ: what &HashQ{} holds.
ZeroHashQ ==
    /\ sharedMap = <<>>
    /\ resource = <<>>
    /\ maxShared = 0
    /\ curSpeed = NilSpeed

\* The variables of SpecPool while another specification runs.
PoolOff ==
    /\ hq = "unset"
    /\ args = NoArgs
    /\ newErr = "none"
    /\ ZeroHashQ
    /\ clock = 0
    /\ GettersIdle

\* The goroutines of the channel pool before New has returned.
ChanIdle ==
    /\ pool = NoPool
    /\ ID = <<>>
    /\ one = <<>>
    /\ cread = <<>>
    /\ cwrite = <<>>
    /\ ppc = "idle"
    /\ pidx = 0
    /\ sch = <<>>
    /\ errch = "none"
    /\ errLog = <<>>
    /\ sentMod = 0
    /\ lastSent = NoSent
    /\ tpc = [t \in Tasks |-> "idle"]
    /\ tconn = [t \in Tasks |-> NoConn]
    /\ mpc = "idle"
    /\ mpos = 0

\* The variables of SpecChan while another specification runs.
ChanOff ==
    /\ csize = 0
    /\ ChanIdle

\* No stream of Get calls at a constant rate.
RateOff ==
    /\ period = 0
    /\ visited = {}
    /\ since = 0

\* No channel pool with CanClose.
MonOff ==
    /\ hpool = <<>>
    /\ canAlways = FALSE
    /\ opened = [e \in Elems |-> FALSE]
    /\ uses = [u \in Users |-> NoElem]
    /\ vpc = "off"
    /\ vpos = 0
    /\ vlog = <<>>

\* New (valid parameters): size slots, each &Resource{} with Pt = emptyPt.
\* modified is the zero time.Time: older than any threshold.
InitSlots ==
    /\ Pt = [s \in Slots |-> emptyPt]
    /\ active = [s \in Slots |-> FALSE]
    /\ open = [s \in Slots |-> "fresh"]
    /\ modified = [s \in Slots |-> MaxAge]
    /\ readers = [s \in Slots |-> {}]
    /\ writer = [s \in Slots |-> NoProc]
    /\ pc = [p \in Procs |-> "idle"]
    /\ slot = [p \in Procs |-> NoSlot]
    /\ got = [p \in Procs |-> NoPt]
    /\ err = [p \in Procs |-> FALSE]
    /\ cpos = [p \in Procs |-> 0]
    /\ genAcq = [s \in Slots |-> 0]
    /\ genTry = [s \in Slots |-> FALSE]
    /\ genRes = [s \in Slots |-> "none"]
    /\ released = {}
    /\ failedGen = [p \in Procs |-> FALSE]
    /\ lastClean = NoClean

\* The state in which the callers of Request.Run and the ticker start.
Init == InitSlots /\ PoolOff /\ ChanOff /\ RateOff /\ MonOff

\* ------------------------------------------------------------ primitives

\* time.Now().Sub(res.modified) > hq.olderPeriod
IsOld(s) == modified[s] > olderPeriod

\* (mutant) the age test with >= for >
CleanCheckAtThreshold(s) == active[s] /\ modified[s] >= olderPeriod

\* The test of HashQ.Clean() on one slot: (res.active) && (age > olderPeriod).
CleanCheck(s) == active[s] /\ IsOld(s)

\* The test of Clean(forced) on one slot, as section 4.1 of the spec gives it:
\* active and (forced or idle longer than the threshold).
ForcedCleanCheck(s, forced) == active[s] /\ (forced \/ IsOld(s))

\* What process p tests in its pass: the ticker goroutine runs the periodic
\* pass, a caller runs the flush Clean(true).
PassCheck(p, s) == IF p = Sweeper THEN CleanCheck(s) ELSE ForcedCleanCheck(s, TRUE)

\* sync.RWMutex.RLock gets in unless a writer has called Lock.
CanRLock(s) == writer[s] = NoProc

\* sync.RWMutex.Lock takes the writer mutex when no other writer has it ...
CanLock(s) == writer[s] = NoProc

\* (mutant) Lock that does not wait for the readers
ReadersGoneNoWait(s) == TRUE

\* ... and gets in when the readers that were in have left.
ReadersGone(s) == readers[s] = {}

\* (mutant) a Do that runs f again after a completed call
OnceRunsAgain(o) == o # "running"

\* sync.Once.Do(f) runs f when no call of Do has run it before.
OnceRuns(o) == o = "fresh"

\* (mutant) a Do that returns while the first call is still running f
OnceDoneNoWait(o) == o # "fresh"

\* sync.Once.Do(f) returns without running f when an earlier call completed.
OnceDone(o) == o = "done"

\* (mutant) a touch that stores nothing
touchSkipped(s) == modified' = modified

\* res.touch(): res.modified = time.Now()
touch(s) == modified' = [modified EXCEPT ![s] = 0]

\* The address of a newly allocated handle (&Connection{...}): different from
\* every handle somebody still refers to.
NewPt ==
    LET live == {Pt[s] : s \in Slots} \cup {got[p] : p \in Procs}
        free == Handles \ live
    IN CHOOSE h \in free : \A g \in free : h <= g

\* Time passes: every slot gets one tick older.
Tick ==
    /\ \E s \in Slots : modified[s] < MaxAge
    /\ modified' = [s \in Slots |-> IF modified[s] < MaxAge THEN modified[s] + 1 ELSE MaxAge]
    /\ lastClean' = NoClean
    /\ UNCHANGED extVars
    /\ UNCHANGED <<Pt, active, open, readers, writer, pc, slot, got, err, cpos,
                   genVars, failedGen>>

\* ------------------------------------------------------------- the caller

\* hq.Get(): returns hq.sharedMap[idx] with 0 <= idx < len(hq.sharedMap); it
\* reads and writes only the estimator hq.curSpeed.
Get(p) ==
    /\ pc[p] = "idle"
    /\ \E s \in Slots : slot' = [slot EXCEPT ![p] = s]
    /\ pc' = [pc EXCEPT ![p] = "lock"]
    /\ failedGen' = [failedGen EXCEPT ![p] = FALSE]
    /\ lastClean' = NoClean
    /\ UNCHANGED extVars
    /\ UNCHANGED <<slotVars, got, err, cpos, genVars>>

\* res.Lock(), first statement: res.touch()
LockTouch(p) ==
    /\ pc[p] = "lock"
    /\ touch(slot[p])
    /\ pc' = [pc EXCEPT ![p] = "rlock"]
    /\ lastClean' = NoClean
    /\ UNCHANGED extVars
    /\ UNCHANGED <<Pt, active, open, readers, writer, slot, got, err, cpos,
                   genVars, failedGen>>

\* res.Lock(), second statement: res.mutex.RLock()
LockRLock(p) ==
    /\ pc[p] = "rlock"
    /\ CanRLock(slot[p])
    /\ readers' = [readers EXCEPT ![slot[p]] = @ \cup {p}]
    /\ pc' = [pc EXCEPT ![p] = "locked"]
    /\ lastClean' = NoClean
    /\ UNCHANGED extVars
    /\ UNCHANGED <<Pt, active, open, modified, writer, slot, got, err, cpos,
                   genVars, failedGen>>

\* res.TryOpen() by the caller whose res.open.Do(open) runs open: Open() is
\* called on res.Pt, and the other callers of Do wait until it has returned.
TryOpenRun(p) ==
    /\ pc[p] = "locked"
    /\ OnceRuns(open[slot[p]])
    /\ open' = [open EXCEPT ![slot[p]] = "running"]
    /\ genAcq' = [genAcq EXCEPT ![slot[p]] = @ + 1]
    /\ genTry' = [genTry EXCEPT ![slot[p]] = TRUE]
    /\ pc' = [pc EXCEPT ![p] = "opening"]
    /\ lastClean' = NoClean
    /\ UNCHANGED extVars
    /\ UNCHANGED <<Pt, active, modified, readers, writer, slot, got, err, cpos,
                   genRes, released, failedGen>>

\* (mutant) res.active set only when Open() returned no error
ActiveAfterOpenOk(ok) == ok

\* res.active once open() has run, given whether Open() returned no error.
ActiveAfterOpen(ok) == TRUE

\* The error TryOpen returns to a caller whose Do did not run open, given what
\* the Open() of this generation returned: the caller's own err, still nil.
ErrOfLaterCall(res) == FALSE

\* (mutant) every slot refers to the one Resource the handle is stored in
StorePtShared(s, h) == [t \in Slots |-> h]

\* open(): the store res.Pt = ... into the Resource of slot s.
StorePt(s, h) == [Pt EXCEPT ![s] = h]

\* Open() returns (ok: with a nil error).  open() stores
\*     res.Pt, err = res.Pt.Open(); res.active = true
\* Do marks the Once done and TryOpen returns res.Pt, err.  Connection.Open
\* returns a new *Connection also when it returns an error.
TryOpenReturn(p) ==
    /\ pc[p] = "opening"
    /\ \E ok \in BOOLEAN :
        /\ active' = [active EXCEPT ![slot[p]] = ActiveAfterOpen(ok)]
        /\ err' = [err EXCEPT ![p] = ~ok]
        /\ genRes' = [genRes EXCEPT ![slot[p]] = IF ok THEN "ok" ELSE "fail"]
        /\ failedGen' = [failedGen EXCEPT ![p] = ~ok]
    /\ Pt' = StorePt(slot[p], NewPt)
    /\ got' = [got EXCEPT ![p] = NewPt]
    /\ released' = released \ {NewPt}
    /\ open' = [open EXCEPT ![slot[p]] = "done"]
    /\ pc' = [pc EXCEPT ![p] = "using"]
    /\ lastClean' = NoClean
    /\ UNCHANGED extVars
    /\ UNCHANGED <<modified, readers, writer, slot, cpos, genAcq, genTry>>

\* res.TryOpen() by a caller whose res.open.Do(open) does not run open: it
\* returns res.Pt and its own err, which nothing has assigned.
TryOpenLater(p) ==
    /\ pc[p] = "locked"
    /\ OnceDone(open[slot[p]])
    /\ got' = [got EXCEPT ![p] = Pt[slot[p]]]
    /\ err' = [err EXCEPT ![p] = ErrOfLaterCall(genRes[slot[p]])]
    /\ genTry' = [genTry EXCEPT ![slot[p]] = TRUE]
    /\ pc' = [pc EXCEPT ![p] = "using"]
    /\ lastClean' = NoClean
    /\ UNCHANGED extVars
    /\ UNCHANGED <<slotVars, slot, cpos, genAcq, genRes, released, failedGen>>

\* res.Unlock(), first statement: res.touch().  A caller unlocks after
\* TryOpen has returned, or without having called it.
UnlockTouch(p) ==
    /\ pc[p] \in {"locked", "using"}
    /\ touch(slot[p])
    /\ pc' = [pc EXCEPT ![p] = "runlock"]
    /\ lastClean' = NoClean
    /\ UNCHANGED extVars
    /\ UNCHANGED <<Pt, active, open, readers, writer, slot, got, err, cpos,
                   genVars, failedGen>>

\* res.Unlock(), second statement: res.mutex.RUnlock().  The caller drops the
\* handle; it keeps res only to retry after an error (Request.Run).
UnlockRUnlock(p) ==
    /\ pc[p] = "runlock"
    /\ readers' = [readers EXCEPT ![slot[p]] = @ \ {p}]
    /\ got' = [got EXCEPT ![p] = NoPt]
    /\ err' = [err EXCEPT ![p] = FALSE]
    /\ slot' = [slot EXCEPT ![p] = IF err[p] THEN @ ELSE NoSlot]
    /\ released' = released \ {got[p]}
    /\ pc' = [pc EXCEPT ![p] = "idle"]
    /\ lastClean' = NoClean
    /\ UNCHANGED extVars
    /\ UNCHANGED <<Pt, active, open, modified, writer, cpos, genAcq, genTry,
                   genRes, failedGen>>

\* ------------------------------------------------------------- the passes

\* A pass over the slots begins: the ticker of New fires and its goroutine
\* calls hq.Clean(), or a caller that holds no slot calls Clean(true).
CleanStart(p) ==
    /\ pc[p] = "idle"
    /\ pc' = [pc EXCEPT ![p] = "clean_check"]
    /\ cpos' = [cpos EXCEPT ![p] = 1]
    /\ lastClean' = NoClean
    /\ UNCHANGED extVars
    /\ UNCHANGED <<slotVars, slot, got, err, genVars, failedGen>>

\* The loop "for i, res := range hq.sharedMap" moves on, or the pass ends.
PassOn(p) ==
    IF cpos[p] < NumSlots
    THEN /\ pc' = [pc EXCEPT ![p] = "clean_check"]
         /\ cpos' = [cpos EXCEPT ![p] = @ + 1]
    ELSE /\ pc' = [pc EXCEPT ![p] = "idle"]
         /\ cpos' = [cpos EXCEPT ![p] = 0]

\* One iteration of the loop of Clean: the test on res, read without the
\* slot's lock; res.Clean is called when it holds.
CleanVisit(p) ==
    /\ pc[p] = "clean_check"
    /\ IF PassCheck(p, cpos[p])
       THEN /\ pc' = [pc EXCEPT ![p] = "clean_lock"]
            /\ UNCHANGED cpos
       ELSE PassOn(p)
    /\ lastClean' = NoClean
    /\ UNCHANGED extVars
    /\ UNCHANGED <<slotVars, slot, got, err, genVars, failedGen>>

\* res.Clean: res.mutex.Lock() is called; from now on RLock waits.
ResourceCleanLock(p) ==
    /\ pc[p] = "clean_lock"
    /\ CanLock(cpos[p])
    /\ writer' = [writer EXCEPT ![cpos[p]] = p]
    /\ pc' = [pc EXCEPT ![p] = "clean_wait"]
    /\ lastClean' = NoClean
    /\ UNCHANGED extVars
    /\ UNCHANGED <<Pt, active, open, modified, readers, slot, got, err, cpos,
                   genVars, failedGen>>

\* (mutant) res.Clean that forgets to replace res.open
OnceAfterCleanKept(o) == o

\* res.open after res.Clean: a new sync.Once{}.
OnceAfterClean(o) == "fresh"

\* res.Clean once Lock() has returned:
\*     res.Pt.Close()
\*     res.Pt, res.open, res.active = hq.emptyPt, sync.Once{}, false
\*     res.touch()
\* and the deferred res.mutex.Unlock().
ResourceClean(p) ==
    /\ pc[p] = "clean_wait"
    /\ ReadersGone(cpos[p])
    /\ LET s == cpos[p] IN
        /\ lastClean' = [by |-> p, slot |-> s, old |-> IsOld(s), act |-> active[s],
                         pt |-> Pt[s], held |-> readers[s],
                         freed |-> {q \in Callers : failedGen[q] /\ slot[q] = s}]
        /\ released' = released \cup ({Pt[s]} \cap {got[q] : q \in Callers})
        /\ Pt' = [Pt EXCEPT ![s] = emptyPt]
        /\ open' = [open EXCEPT ![s] = OnceAfterClean(open[s])]
        /\ active' = [active EXCEPT ![s] = FALSE]
        /\ touch(s)
        /\ writer' = [writer EXCEPT ![s] = NoProc]
        /\ genAcq' = [genAcq EXCEPT ![s] = 0]
        /\ genTry' = [genTry EXCEPT ![s] = FALSE]
        /\ genRes' = [genRes EXCEPT ![s] = "none"]
        /\ failedGen' = [q \in Procs |-> failedGen[q] /\ slot[q] # s]
    /\ PassOn(p)
    /\ UNCHANGED <<readers, slot, got, err>>
    /\ UNCHANGED extVars

Next ==
    \/ Tick
    \/ \E p \in Callers : Get(p)
    \/ \E p \in Callers : LockTouch(p)
    \/ \E p \in Callers : LockRLock(p)
    \/ \E p \in Callers : TryOpenRun(p)
    \/ \E p \in Callers : TryOpenReturn(p)
    \/ \E p \in Callers : TryOpenLater(p)
    \/ \E p \in Callers : UnlockTouch(p)
    \/ \E p \in Callers : UnlockRUnlock(p)
    \/ \E p \in Procs : CleanStart(p)
    \/ \E p \in Procs : CleanVisit(p)
    \/ \E p \in Procs : ResourceCleanLock(p)
    \/ \E p \in Procs : ResourceClean(p)

Spec == Init /\ [][Next]_vars

TypeOK ==
    /\ \A s \in Slots : open[s] \in {"fresh", "running", "done"}
    /\ \A s \in Slots : readers[s] \subseteq Callers
    /\ \A s \in Slots : modified[s] \in 0..MaxAge

\* =====================================================================
\* New, HashQ.Get, HashQ.genHash and Speed (src/unnamed/part_002, 90-185)
\*
\* hq.Get() takes no lock: the goroutines that call it read and write the
\* fields of hq.curSpeed one word at a time, in any interleaving.  The clock
\* time.Now().UnixNano() never goes back.  No slot is opened here, so
\* every Resource stays as New made it.
\* =====================================================================

Abs(x) == IF x < 0 THEN -x ELSE x

\* Go's integer division, which truncates toward zero (b # 0).
GoDiv(a, b) ==
    LET q == Abs(a) \div Abs(b)
    IN IF (a < 0) # (b < 0) THEN -q ELSE q

\* Go's remainder: a - b*(a/b), with the sign of a.
GoMod(a, b) == a - b * GoDiv(a, b)

\* The arguments New is called with.
ArgSet ==
    [share : {NilShared, emptyPt}, size : (-1)..MaxSize, spch : 0..MaxStride]

\* The callers hold no pool yet and will call New, or hold the nil *HashQ
\* (var hq *HashQ), or the zero value (hq := &HashQ{}).
InitPool ==
    /\ InitSlots
    /\ ChanOff
    /\ RateOff
    /\ MonOff
    /\ hq \in {"unset", "nil", "zero"}
    /\ args \in (IF hq = "unset" THEN ArgSet ELSE {NoArgs})
    /\ newErr = "none"
    /\ ZeroHashQ
    /\ clock \in InitTimes
    /\ GettersIdle

\* (mutant) a New that does not test spch
NewFailsNoStride(share, size, spch) == share = NilShared \/ size < 1

\* The switch of New: share == nil, size < 1, spch < 1.
NewFails(share, size, spch) == share = NilShared \/ size < 1 \/ spch < 1

\* New(share, size, spch, cleaner, older).  With an error it returns the
\* pool hq := &HashQ{}; otherwise size Resources with Pt = emptyPt and the
\* Speed{0, initTime, initTime, incomeFreqTotal, spch}.
New ==
    /\ hq = "unset"
    /\ IF NewFails(args.share, args.size, args.spch)
       THEN /\ hq' = "zero"
            /\ newErr' = "error"
            /\ UNCHANGED <<sharedMap, resource, maxShared, curSpeed>>
       ELSE /\ hq' = "built"
            /\ newErr' = "nil"
            /\ sharedMap' = [i \in 1..args.size |-> i]
            /\ resource' = [r \in 1..args.size |->
                              [Pt |-> args.share, active |-> FALSE, open |-> "fresh"]]
            /\ maxShared' = args.size
            /\ curSpeed' = [Sum |-> 0, Start |-> clock, Last |-> clock,
                            incomeFreq |-> incomeFreqTotal, speedCheck |-> args.spch]
    /\ UNCHANGED <<args, clock, gpc, reg, ret, cleanRet, calls, overlapped>>
    /\ UNCHANGED <<progVars, chanVars, rateVars, monVars>>

\* A goroutine has panicked: the program has ended.
Panicked == cleanRet = "panic" \/ \E g \in Getters : ret[g].out = "panic"

\* The clock moves on.
Advance ==
    /\ hq = "built"
    /\ ~Panicked
    /\ clock - curSpeed.Start < MaxElapsed
    /\ clock' = clock + 1
    /\ UNCHANGED <<hq, args, newErr, sharedMap, resource, maxShared, curSpeed,
                   gpc, reg, ret, cleanRet, calls, overlapped>>
    /\ UNCHANGED <<progVars, chanVars, rateVars, monVars>>

\* hq.Clean() as one step: the range over hq.sharedMap dereferences hq, and
\* every Resource found active (its modified being the zero time) is cleaned.
HashQClean ==
    /\ hq # "unset"
    /\ cleanRet = "none"
    /\ ~Panicked
    /\ IF hq = "nil"
       THEN /\ cleanRet' = "panic"
            /\ UNCHANGED resource
       ELSE /\ cleanRet' = "returned"
            /\ resource' = [r \in DOMAIN resource |->
                              IF resource[r].active
                              THEN [Pt |-> emptyPt, active |-> FALSE, open |-> "fresh"]
                              ELSE resource[r]]
    /\ UNCHANGED <<hq, args, newErr, sharedMap, maxShared, curSpeed, clock,
                   gpc, reg, ret, calls, overlapped>>
    /\ UNCHANGED <<progVars, chanVars, rateVars, monVars>>

\* hq.Get(), its test (hq == nil) || (hq.Len() == 0): it returns
\* (nil, error), or goes on to hq.genHash().
GetCall(g) ==
    /\ gpc[g] = "idle"
    /\ hq # "unset"
    /\ ~Panicked
    /\ IF hq = "nil" \/ Len(sharedMap) = 0
       THEN /\ ret' = [ret EXCEPT ![g] = [NoRet EXCEPT !.out = "error"]]
            /\ UNCHANGED <<gpc, calls, overlapped>>
       ELSE /\ calls < MaxGets
            /\ calls' = calls + 1
            /\ ret' = [ret EXCEPT ![g] = [NoRet EXCEPT !.n = calls + 1]]
            /\ gpc' = [gpc EXCEPT ![g] = "inc"]
            /\ overlapped' = (overlapped \/ \E o \in Getters \ {g} : gpc[o] # "idle")
    /\ UNCHANGED <<hq, args, newErr, sharedMap, resource, maxShared, curSpeed,
                   clock, reg, cleanRet>>
    /\ UNCHANGED <<progVars, chanVars, rateVars, monVars>>

\* Speed.inc(), the operands of
\*     s.Sum, s.Last = s.Sum+1, time.Now().UnixNano()
IncRead(g) ==
    /\ gpc[g] = "inc"
    /\ ~Panicked
    /\ reg' = [reg EXCEPT ![g] = [sum |-> curSpeed.Sum, now |-> clock, f |-> 0]]
    /\ gpc' = [gpc EXCEPT ![g] = "inc_sum"]
    /\ UNCHANGED <<hq, args, newErr, sharedMap, resource, maxShared, curSpeed,
                   clock, ret, cleanRet, calls, overlapped>>
    /\ UNCHANGED <<progVars, chanVars, rateVars, monVars>>

\* Speed.inc(), the store to s.Sum
IncWriteSum(g) ==
    /\ gpc[g] = "inc_sum"
    /\ ~Panicked
    /\ curSpeed' = [curSpeed EXCEPT !.Sum = reg[g].sum + 1]
    /\ gpc' = [gpc EXCEPT ![g] = "inc_last"]
    /\ UNCHANGED <<hq, args, newErr, sharedMap, resource, maxShared, clock,
                   reg, ret, cleanRet, calls, overlapped>>
    /\ UNCHANGED <<progVars, chanVars, rateVars, monVars>>

\* (mutant) an inc that also moves s.Start
incLastAndStart(s, now) == [s EXCEPT !.Last = now, !.Start = now]

\* Speed.inc(), the Speed after s.Last = time.Now().UnixNano()
incLast(s, now) == [s EXCEPT !.Last = now]

\* Speed.inc(), the store to s.Last
IncWriteLast(g) ==
    /\ gpc[g] = "inc_last"
    /\ ~Panicked
    /\ curSpeed' = incLast(curSpeed, reg[g].now)
    /\ reg' = [reg EXCEPT ![g] = NoReg]
    /\ gpc' = [gpc EXCEPT ![g] = "check"]
    /\ UNCHANGED <<hq, args, newErr, sharedMap, resource, maxShared, clock,
                   ret, cleanRet, calls, overlapped>>
    /\ UNCHANGED <<progVars, chanVars, rateVars, monVars>>

\* Speed.Check(): (uint64(s.Sum) % s.speedCheck) == 1
Check(s) == (s.Sum % s.speedCheck) = 1

\* Speed.Freq(): (s.Last - s.Start) / int64(s.Sum)
Freq(s) == GoDiv(s.Last - s.Start, s.Sum)

\* genHash: if hq.curSpeed.Check() { ... }
GenHashCheck(g) ==
    /\ gpc[g] = "check"
    /\ ~Panicked
    /\ IF Check(curSpeed)
       THEN /\ gpc' = [gpc EXCEPT ![g] = "freq"]
            /\ ret' = [ret EXCEPT ![g].tried = TRUE]
       ELSE /\ gpc' = [gpc EXCEPT ![g] = "index"]
            /\ UNCHANGED ret
    /\ UNCHANGED <<hq, args, newErr, sharedMap, resource, maxShared, curSpeed,
                   clock, reg, cleanRet, calls, overlapped>>
    /\ UNCHANGED <<progVars, chanVars, rateVars, monVars>>

\* genHash: f := hq.curSpeed.Freq(); the division panics when int64(s.Sum)
\* is zero.
GenHashFreq(g) ==
    /\ gpc[g] = "freq"
    /\ ~Panicked
    /\ IF curSpeed.Sum = 0
       THEN /\ ret' = [ret EXCEPT ![g].out = "panic"]
            /\ UNCHANGED <<reg, gpc>>
       ELSE /\ reg' = [reg EXCEPT ![g].f = Freq(curSpeed)]
            /\ gpc' = [gpc EXCEPT ![g] = "store"]
            /\ UNCHANGED ret
    /\ UNCHANGED <<hq, args, newErr, sharedMap, resource, maxShared, curSpeed,
                   clock, cleanRet, calls, overlapped>>
    /\ UNCHANGED <<progVars, chanVars, rateVars, monVars>>

\* (mutant) genHash without the test f != 0
StoresFreqAlways(f) == TRUE

\* genHash: if f := hq.curSpeed.Freq(); f != 0
StoresFreq(f) == f # 0

\* genHash: hq.curSpeed.incomeFreq = f, when f != 0
GenHashStore(g) ==
    /\ gpc[g] = "store"
    /\ ~Panicked
    /\ curSpeed' = IF StoresFreq(reg[g].f)
                   THEN [curSpeed EXCEPT !.incomeFreq = reg[g].f]
                   ELSE curSpeed
    /\ reg' = [reg EXCEPT ![g] = NoReg]
    /\ gpc' = [gpc EXCEPT ![g] = "index"]
    /\ UNCHANGED <<hq, args, newErr, sharedMap, resource, maxShared, clock,
                   ret, cleanRet, calls, overlapped>>
    /\ UNCHANGED <<progVars, chanVars, rateVars, monVars>>

\* (mutant) the index without the remainder
IndexOfNoMod(now, freq, n) == GoDiv(now, freq)

\* genHash: (time.Now().UnixNano() / hq.curSpeed.incomeFreq) % hq.maxShared
IndexOf(now, freq, n) == GoMod(GoDiv(now, freq), n)

\* genHash computes idx and Get returns hq.sharedMap[idx], nil.  The
\* division panics on a zero incomeFreq and the indexing panics on an idx
\* outside the slice.
GenHashIndex(g) ==
    /\ gpc[g] = "index"
    /\ ~Panicked
    /\ IF curSpeed.incomeFreq = 0
       THEN ret' = [ret EXCEPT ![g].out = "panic"]
       ELSE LET idx == IndexOf(clock, curSpeed.incomeFreq, maxShared) IN
            IF idx \in 0..(Len(sharedMap) - 1)
            THEN ret' = [ret EXCEPT ![g].out = "slot", ![g].res = sharedMap[idx + 1]]
            ELSE ret' = [ret EXCEPT ![g].out = "panic"]
    /\ gpc' = [gpc EXCEPT ![g] = "idle"]
    /\ UNCHANGED <<hq, args, newErr, sharedMap, resource, maxShared, curSpeed,
                   clock, reg, cleanRet, calls, overlapped>>
    /\ UNCHANGED <<progVars, chanVars, rateVars, monVars>>

NextPool ==
    \/ New
    \/ Advance
    \/ HashQClean
    \/ \E g \in Getters : GetCall(g)
    \/ \E g \in Getters : IncRead(g)
    \/ \E g \in Getters : IncWriteSum(g)
    \/ \E g \in Getters : IncWriteLast(g)
    \/ \E g \in Getters : GenHashCheck(g)
    \/ \E g \in Getters : GenHashFreq(g)
    \/ \E g \in Getters : GenHashStore(g)
    \/ \E g \in Getters : GenHashIndex(g)

SpecPool == InitPool /\ [][NextPool]_vars

\* =====================================================================
\* The channel pool: New, Size, Produce, Monitor
\* (src/unnamed/part_002, 286-338) with the Conn, GetConn and Task of
\* src/hashq_test.go.
\*
\* h.mutex is written only inside New, before the pool is handed out, so
\* the RLock of Size and Monitor never waits and is not modelled.  Conn.mutex
\* is a sync.RWMutex with writer preference; c.one.Do(f) is one step, since
\* f only adds to c.ID and every other access to c.ID is made after Do has
\* returned or under the exclusive lock.
\* =====================================================================

InitChan ==
    /\ InitSlots
    /\ PoolOff
    /\ RateOff
    /\ MonOff
    /\ csize \in (-1)..MaxPool
    /\ ChanIdle

\* New(size, e, d): the loop "for i := 0; i < size; i++" appends e.New(),
\* a new &Conn{}, size times; for size <= 0 it appends nothing.
ChanNew ==
    /\ pool = NoPool
    /\ pool' = [i \in 1..csize |-> i]
    /\ ID' = [c \in 1..csize |-> 0]
    /\ one' = [c \in 1..csize |-> "fresh"]
    /\ cread' = [c \in 1..csize |-> {}]
    /\ cwrite' = [c \in 1..csize |-> FALSE]
    /\ UNCHANGED <<csize, ppc, pidx, sch, errch, errLog, sentMod, lastSent,
                   tpc, tconn, mpc, mpos>>
    /\ UNCHANGED <<progVars, poolVars, rateVars, monVars>>

\* h.Size(): len(h.pool)
Size == Len(pool)

\* (mutant) a Produce that never finds the pool empty
SizeIsZeroNever(n) == FALSE

\* Produce: if h.Size() == 0
SizeIsZero(n) == n = 0

\* Produce begins: errch <- errors.New("empty pool"), or errch <- nil.  errch
\* is unbuffered: the send is over when the value has been received.
ProduceErr ==
    /\ pool # NoPool
    /\ ppc = "idle"
    /\ LET e == IF SizeIsZero(Size) THEN "error" ELSE "nil" IN
        /\ errch' = e
        /\ errLog' = Append(errLog, [e |-> e, first |-> lastSent = NoSent])
        /\ ppc' = IF SizeIsZero(Size) THEN "erroring" ELSE "starting"
    /\ UNCHANGED <<csize, pool, ID, one, cread, cwrite, pidx, sch, sentMod,
                   lastSent, tpc, tconn, mpc, mpos>>
    /\ UNCHANGED <<progVars, poolVars, rateVars, monVars>>

\* The caller of Produce receives from errch (err := <-ec): the send returns,
\* and Produce returns or enters its loop.
RecvErr ==
    /\ errch # "none"
    /\ errch' = "none"
    /\ ppc' = IF ppc = "erroring" THEN "returned" ELSE "loop"
    /\ pidx' = 0
    /\ UNCHANGED <<csize, pool, ID, one, cread, cwrite, sch, errLog, sentMod,
                   lastSent, tpc, tconn, mpc, mpos>>
    /\ UNCHANGED <<progVars, poolVars, rateVars, monVars>>

\* (mutant) a loop that starts again one element late
RangeNextSkip(i, n) == IF i + 1 < n THEN i + 1 ELSE IF n > 1 THEN 1 ELSE 0

\* for { for _, s := range h.pool { ... } }: the index after i.
RangeNext(i, n) == IF i + 1 < n THEN i + 1 ELSE 0

\* Produce: sch <- s, which waits while the buffer of sch is full.
ProduceSend ==
    /\ ppc = "loop"
    /\ pidx < Size
    /\ Len(sch) < ChanCap
    /\ sch' = Append(sch, pool[pidx + 1])
    /\ lastSent' = [k |-> sentMod, s |-> pool[pidx + 1]]
    /\ sentMod' = (sentMod + 1) % Size
    /\ pidx' = RangeNext(pidx, Size)
    /\ UNCHANGED <<csize, pool, ID, one, cread, cwrite, ppc, errch, errLog,
                   tpc, tconn, mpc, mpos>>
    /\ UNCHANGED <<progVars, poolVars, rateVars, monVars>>

\* GetConn: shared := <-ch
TaskRecv(t) ==
    /\ tpc[t] = "idle"
    /\ Len(sch) > 0
    /\ tconn' = [tconn EXCEPT ![t] = Head(sch)]
    /\ sch' = Tail(sch)
    /\ tpc' = [tpc EXCEPT ![t] = "open"]
    /\ UNCHANGED <<csize, pool, ID, one, cread, cwrite, ppc, pidx, errch,
                   errLog, sentMod, lastSent, mpc, mpos>>
    /\ UNCHANGED <<progVars, poolVars, rateVars, monVars>>

\* Conn.Open(v): c.mutex.RLock(), which waits once Close has called Lock.
ConnRLock(t) ==
    /\ tpc[t] = "open"
    /\ ~cwrite[tconn[t]]
    /\ cread' = [cread EXCEPT ![tconn[t]] = @ \cup {t}]
    /\ tpc' = [tpc EXCEPT ![t] = "do"]
    /\ UNCHANGED <<csize, pool, ID, one, cwrite, ppc, pidx, sch, errch, errLog,
                   sentMod, lastSent, tconn, mpc, mpos>>
    /\ UNCHANGED <<progVars, poolVars, rateVars, monVars>>

\* Conn.Open(v): c.one.Do(func() { c.ID += v }), with the v of Task,
\* rand.Intn(maxVal-1)+1.
ConnDo(t) ==
    /\ tpc[t] = "do"
    /\ \E v \in 1..(maxVal - 1) :
        LET c == tconn[t] IN
        IF one[c] = "fresh"
        THEN /\ ID' = [ID EXCEPT ![c] = @ + v]
             /\ one' = [one EXCEPT ![c] = "done"]
        ELSE UNCHANGED <<ID, one>>
    /\ tpc' = [tpc EXCEPT ![t] = "holding"]
    /\ UNCHANGED <<csize, pool, cread, cwrite, ppc, pidx, sch, errch, errLog,
                   sentMod, lastSent, tconn, mpc, mpos>>
    /\ UNCHANGED <<progVars, poolVars, rateVars, monVars>>

\* Conn.Release(): c.mutex.RUnlock(), called for the task once c.ID has been
\* looked at.
Release(t) ==
    /\ tpc[t] = "holding"
    /\ cread' = [cread EXCEPT ![tconn[t]] = @ \ {t}]
    /\ tconn' = [tconn EXCEPT ![t] = NoConn]
    /\ tpc' = [tpc EXCEPT ![t] = "idle"]
    /\ UNCHANGED <<csize, pool, ID, one, cwrite, ppc, pidx, sch, errch, errLog,
                   sentMod, lastSent, mpc, mpos>>
    /\ UNCHANGED <<progVars, poolVars, rateVars, monVars>>

\* Monitor: time.After(d) fires and the range over h.pool begins.
MonitorStart ==
    /\ pool # NoPool
    /\ mpc = "idle"
    /\ Size > 0
    /\ mpc' = "lock"
    /\ mpos' = 1
    /\ UNCHANGED <<csize, pool, ID, one, cread, cwrite, ppc, pidx, sch, errch,
                   errLog, sentMod, lastSent, tpc, tconn>>
    /\ UNCHANGED <<progVars, poolVars, rateVars, monVars>>

\* Conn.Close(d): c.mutex.Lock() is called; from now on RLock waits.
CloseLock ==
    /\ mpc = "lock"
    /\ ~cwrite[pool[mpos]]
    /\ cwrite' = [cwrite EXCEPT ![pool[mpos]] = TRUE]
    /\ mpc' = "wait"
    /\ UNCHANGED <<csize, pool, ID, one, cread, ppc, pidx, sch, errch, errLog,
                   sentMod, lastSent, tpc, tconn, mpos>>
    /\ UNCHANGED <<progVars, poolVars, rateVars, monVars>>

\* (mutant) a Lock that does not wait for the readers
ConnReadersGoneNoWait(c) == TRUE

\* c.mutex.Lock() gets in when the readers that were in have left.
ConnReadersGone(c) == cread[c] = {}

\* Conn.Close(d) once Lock() has returned:
\*     if c.ID == 0 { c.one = sync.Once{}; return false }
\*     c.ID, c.one = 0, sync.Once{}
\* and the deferred c.mutex.Unlock(); the loop of Monitor moves on.
CloseRun ==
    /\ mpc = "wait"
    /\ ConnReadersGone(pool[mpos])
    /\ LET c == pool[mpos] IN
        /\ ID' = [ID EXCEPT ![c] = 0]
        /\ one' = [one EXCEPT ![c] = "fresh"]
        /\ cwrite' = [cwrite EXCEPT ![c] = FALSE]
    /\ IF mpos < Size
       THEN mpc' = "lock" /\ mpos' = mpos + 1
       ELSE mpc' = "idle" /\ mpos' = 0
    /\ UNCHANGED <<csize, pool, cread, ppc, pidx, sch, errch, errLog, sentMod,
                   lastSent, tpc, tconn>>
    /\ UNCHANGED <<progVars, poolVars, rateVars, monVars>>

NextChan ==
    \/ ChanNew
    \/ ProduceErr
    \/ RecvErr
    \/ ProduceSend
    \/ \E t \in Tasks : TaskRecv(t)
    \/ \E t \in Tasks : ConnRLock(t)
    \/ \E t \in Tasks : ConnDo(t)
    \/ \E t \in Tasks : Release(t)
    \/ MonitorStart
    \/ CloseLock
    \/ CloseRun

SpecChan == InitChan /\ [][NextChan]_vars

\* =====================================================================
\* hq.Get() called at a constant rate (src/unnamed/part_002, 137-185)
\*
\* One goroutine calls hq.Get() on the pool of New every period units of
\* the clock, the first time at most one period after New.  The calls do
\* not overlap, so a call is one step, and the two readings of time.Now()
\* inside one genHash give the same value.
\* =====================================================================

InitRate ==
    /\ InitSlots
    /\ ChanOff
    /\ MonOff
    /\ hq = "unset"
    /\ args \in {a \in ArgSet : ~NewFails(a.share, a.size, a.spch)}
    /\ newErr = "none"
    /\ ZeroHashQ
    /\ clock \in InitTimes
    /\ GettersIdle
    /\ period \in 1..MaxPeriod
    /\ visited = {}
    /\ since = 0

\* genHash, hq.curSpeed after inc() and after
\*     if hq.curSpeed.Check() { if f := hq.curSpeed.Freq(); f != 0 { ... } }
genHashSpeed(s, now) ==
    LET s1 == incLast([s EXCEPT !.Sum = s.Sum + 1], now)
    IN IF Check(s1) /\ StoresFreq(Freq(s1))
       THEN [s1 EXCEPT !.incomeFreq = Freq(s1)]
       ELSE s1

\* The next hq.Get() of the stream: genHash and the Resource returned.
RateGet ==
    /\ hq = "built"
    /\ calls < MaxRateGets
    /\ \E c \in (IF calls = 0 THEN 0..period ELSE {period}) :
          LET now == clock + c
              s == genHashSpeed(curSpeed, now)
              idx == IndexOf(now, s.incomeFreq, maxShared)
              replaced == s.incomeFreq # incomeFreqTotal
          IN /\ clock' = now
             /\ curSpeed' = s
             /\ calls' = calls + 1
             /\ ret' = [ret EXCEPT ![1] = [out |-> "slot", res |-> sharedMap[idx + 1],
                                           n |-> calls + 1, tried |-> Check(s)]]
             /\ visited' = IF replaced THEN visited \cup {idx} ELSE visited
             /\ since' = IF replaced THEN since + 1 ELSE since
    /\ UNCHANGED <<hq, args, newErr, sharedMap, resource, maxShared, gpc, reg,
                   cleanRet, overlapped, period>>
    /\ UNCHANGED <<progVars, chanVars, monVars>>

NextRate ==
    \/ New
    \/ RateGet

SpecRate == InitRate /\ [][NextRate]_vars

\* =====================================================================
\* The channel pool with CanClose (src/hashq.go, 30-109)
\*
\* New keeps its argument e in h.empty and appends h.empty size times:
\* every index of h.pool holds the same Shared.  The goroutines that
\* receive elements from sch use them and let them go; CanClose and Close
\* are the methods of the element (README: CanClose "is only to skip used
\* elements without locks", or returns true always).  Monitor runs clean()
\* after every period d; nothing takes h.mutex for writing after New.
\* =====================================================================

\* New: for i := 0; i < size; i++ { h.pool = append(h.pool, h.empty) }
NewPool(size, e) == [i \in 1..size |-> e]

InitMonitor ==
    /\ InitSlots
    /\ PoolOff
    /\ ChanOff
    /\ RateOff
    /\ hpool \in {NewPool(size, TheEmpty) : size \in 0..MaxMon}
    /\ canAlways \in BOOLEAN
    /\ opened = [e \in Elems |-> FALSE]
    /\ uses = [u \in Users |-> NoElem]
    /\ vpc = "wait"
    /\ vpos = 0
    /\ vlog = <<>>

\* A goroutine receives an element of h.pool from sch and opens it.
UserTake(u) ==
    /\ uses[u] = NoElem
    /\ \E i \in 1..Len(hpool) :
          /\ uses' = [uses EXCEPT ![u] = hpool[i]]
          /\ opened' = [opened EXCEPT ![hpool[i]] = TRUE]
    /\ UNCHANGED <<hpool, canAlways, vpc, vpos, vlog>>
    /\ UNCHANGED <<progVars, poolVars, chanVars, rateVars>>

\* The goroutine has finished with its element.
UserDone(u) ==
    /\ uses[u] # NoElem
    /\ uses' = [uses EXCEPT ![u] = NoElem]
    /\ UNCHANGED <<hpool, canAlways, opened, vpc, vpos, vlog>>
    /\ UNCHANGED <<progVars, poolVars, chanVars, rateVars>>

\* s.CanClose(): true always, or true when nobody uses the element.
CanClose(e) == canAlways \/ \A u \in Users : uses[u] # e

\* Monitor: case <-time.After(d): clean() takes h.mutex.RLock and begins
\* the range over h.pool.
MonitorAfter ==
    /\ vpc = "wait"
    /\ vpc' = "range"
    /\ vpos' = 1
    /\ vlog' = <<>>
    /\ UNCHANGED <<hpool, canAlways, opened, uses>>
    /\ UNCHANGED <<progVars, poolVars, chanVars, rateVars>>

\* clean(): if s.CanClose() { ... } for the element at the loop index
MonitorCanClose ==
    /\ vpc = "range"
    /\ vpos <= Len(hpool)
    /\ LET can == CanClose(hpool[vpos])
       IN /\ vlog' = Append(vlog, [elem |-> hpool[vpos], can |-> can, closed |-> FALSE])
          /\ IF can
             THEN vpc' = "close" /\ vpos' = vpos
             ELSE vpc' = "range" /\ vpos' = vpos + 1
    /\ UNCHANGED <<hpool, canAlways, opened, uses>>
    /\ UNCHANGED <<progVars, poolVars, chanVars, rateVars>>

\* clean(): s.Close(h.closeWait)
MonitorClose ==
    /\ vpc = "close"
    /\ opened' = [opened EXCEPT ![hpool[vpos]] = FALSE]
    /\ vlog' = [vlog EXCEPT ![vpos].closed = TRUE]
    /\ vpos' = vpos + 1
    /\ vpc' = "range"
    /\ UNCHANGED <<hpool, canAlways, uses>>
    /\ UNCHANGED <<progVars, poolVars, chanVars, rateVars>>

\* clean() returns at the end of the range (the deferred RUnlock) and
\* Monitor waits for the next time.After(d).
MonitorReturn ==
    /\ vpc = "range"
    /\ vpos > Len(hpool)
    /\ vpc' = "wait"
    /\ UNCHANGED <<hpool, canAlways, opened, uses, vpos, vlog>>
    /\ UNCHANGED <<progVars, poolVars, chanVars, rateVars>>

NextMonitor ==
    \/ \E u \in Users : UserTake(u)
    \/ \E u \in Users : UserDone(u)
    \/ MonitorAfter
    \/ MonitorCanClose
    \/ MonitorClose
    \/ MonitorReturn

SpecMonitor == InitMonitor /\ [][NextMonitor]_vars


\* =====================================================================
\* The ticker goroutine of New under the Go scheduler
\* (src/unnamed/part_002, 111-134 and 188-197)
\*
\* Only the goroutine New starts runs passes here.  That goroutine is always
\* scheduled when it can take a step: the ticker fires again, the loop of
\* Clean goes on, and res.mutex.Lock() returns once no reader is in (new
\* readers wait behind it).  Time passes.  Nothing makes a caller go on: a
\* caller may stay between Lock and Unlock for ever.
\* =====================================================================

NextTicker ==
    \/ Tick
    \/ \E p \in Callers : Get(p)
    \/ \E p \in Callers : LockTouch(p)
    \/ \E p \in Callers : LockRLock(p)
    \/ \E p \in Callers : TryOpenRun(p)
    \/ \E p \in Callers : TryOpenReturn(p)
    \/ \E p \in Callers : TryOpenLater(p)
    \/ \E p \in Callers : UnlockTouch(p)
    \/ \E p \in Callers : UnlockRUnlock(p)
    \/ CleanStart(Sweeper)
    \/ CleanVisit(Sweeper)
    \/ ResourceCleanLock(Sweeper)
    \/ ResourceClean(Sweeper)

TickerFair ==
    /\ WF_vars(Tick)
    /\ WF_vars(CleanStart(Sweeper))
    /\ WF_vars(CleanVisit(Sweeper))
    /\ WF_vars(ResourceCleanLock(Sweeper))
    /\ WF_vars(ResourceClean(Sweeper))

SpecTicker == Init /\ [][NextTicker]_vars /\ TickerFair

\* ------------------------------------------------------------ vocabulary

\* p is inside Lock()..Unlock() on slot s.
Holds(p, s) == p \in readers[s]

\* p's TryOpen has returned and p has not yet unlocked.
HasResult(p) == got[p] # NoPt

\* The latest step was a Resource.Clean.
Cleaned == lastClean.slot # NoSlot

\* This step is process p leaving the test of its pass on slot s.
Visits(p, s) ==
    /\ pc[p] = "clean_check"
    /\ cpos[p] = s
    /\ (pc'[p] # pc[p] \/ cpos'[p] # cpos[p])

\* ... and it goes on to call res.Clean on that slot.
CallsClean(p) == pc'[p] = "clean_lock"

\* This step is p's call of TryOpen getting past res.open.Do.
CallsTryOpen(p) == pc[p] = "locked" /\ pc'[p] \in {"opening", "using"}

\* ---------------------------------------------------------------- claims

\* C1: in every generation of a slot (from construction or an eviction to the
\* next eviction) Shared.Open is called at most once, and exactly once as soon
\* as some caller has called TryOpen in that generation.
C1_OpenOncePerGeneration ==
    \A s \in Slots :
        /\ genAcq[s] <= 1
        /\ (genTry[s] => genAcq[s] = 1)

\* C1 witness: two callers hold the same slot and both have a TryOpen result,
\* after one Open.
C1_Witness ==
    \E s \in Slots : \E p, q \in Callers :
        /\ p # q
        /\ Holds(p, s) /\ Holds(q, s)
        /\ pc[p] = "using" /\ pc[q] = "using"
        /\ genAcq[s] = 1

\* C2: Shared.Close is never called on a slot while a caller is between Lock
\* and Unlock on it: whenever a Resource.Clean runs, no reader is in, and a
\* Clean that has called Lock while readers are in has closed nothing yet.
C2_NoCloseWhileHeld ==
    /\ (Cleaned => lastClean.held = {})
    /\ \A s \in Slots : \A p \in Callers :
        (Holds(p, s) /\ HasResult(p)) => (got[p] \notin released /\ Pt[s] = got[p])

\* C2 witness: the sweep has called Lock on a slot that a caller is using.
C2_Witness ==
    \E p \in Callers :
        /\ pc[Sweeper] = "clean_wait"
        /\ Holds(p, cpos[Sweeper])
        /\ pc[p] = "using"

\* C3 (as claimed): after a failed Open, every TryOpen of that generation
\* returns the error.
C3_CachedError ==
    \A p \in Callers :
        (HasResult(p) /\ genRes[slot[p]] = "fail") => err[p]

\* C4 (as claimed): a TryOpen that returns no error returns the handle of a
\* successful Open of the current generation, not the template and not a
\* closed handle.
C4_SuccessIsLiveHandle ==
    \A p \in Callers :
        (HasResult(p) /\ ~err[p]) =>
            /\ genRes[slot[p]] = "ok"
            /\ got[p] = Pt[slot[p]]
            /\ got[p] # emptyPt
            /\ got[p] \notin released

\* C5: when the Open of a generation succeeded, all callers that hold a
\* TryOpen result for the slot hold the same handle, the slot's res.Pt.
C5_SameHandle ==
    \A s \in Slots : \A p, q \in Callers :
        (genRes[s] = "ok" /\ Holds(p, s) /\ Holds(q, s) /\ HasResult(p) /\ HasResult(q))
            => (got[p] = got[q] /\ got[p] = Pt[s] /\ got[p] # emptyPt)

\* C5 witness: two callers share the handle of a successful Open.
C5_Witness ==
    \E s \in Slots : \E p, q \in Callers :
        /\ p # q
        /\ genRes[s] = "ok"
        /\ Holds(p, s) /\ Holds(q, s)
        /\ pc[p] = "using" /\ pc[q] = "using"
        /\ got[p] = got[q]

C7_NoFreshEviction ==
    lastClean.by = Sweeper => lastClean.old

\* C8 (as claimed): res.active is true only if the Open of the current
\* generation succeeded.
C8_ActiveOnlyAfterSuccess ==
    \A s \in Slots : active[s] => genRes[s] = "ok"

C11_EvictionEffect ==
    [][\A s \in Slots :
        lastClean'.slot = s =>
            /\ writer[s] = lastClean'.by
            /\ readers[s] = {}
            /\ lastClean'.pt = Pt[s]
            /\ Pt'[s] = emptyPt
            /\ ~active'[s]
            /\ open'[s] = "fresh"
            /\ modified'[s] = 0
            /\ writer'[s] = NoProc
            /\ \A t \in Slots \ {s} :
                /\ Pt'[t] = Pt[t]
                /\ active'[t] = active[t]
                /\ open'[t] = open[t]
                /\ modified'[t] = modified[t]
                /\ readers'[t] = readers[t]
                /\ writer'[t] = writer[t]]_vars

\* C11 witness: a slot holding an opened handle has just been evicted while
\* another slot is active, opened and held by a caller.
C11_Witness ==
    /\ Cleaned
    /\ lastClean.pt # emptyPt
    /\ lastClean.act
    /\ \E t \in Slots \ {lastClean.slot} :
        active[t] /\ Pt[t] # emptyPt /\ readers[t] # {} /\ modified[t] > 0

\* C12: once New has returned, it has returned an error if share was nil,
\* size < 1 or spch < 1, and otherwise no error and a pool of exactly size
\* distinct slots, each with Pt = the template, not active and a new Once.
C12_Construction ==
    newErr # "none" =>
        IF args.share = NilShared \/ args.size < 1 \/ args.spch < 1
        THEN newErr = "error"
        ELSE /\ newErr = "nil"
             /\ hq = "built"
             /\ Len(sharedMap) = args.size
             /\ maxShared = args.size
             /\ \A i, j \in 1..args.size : sharedMap[i] = sharedMap[j] => i = j
             /\ \A i \in 1..args.size :
                 resource[sharedMap[i]] =
                     [Pt |-> args.share, active |-> FALSE, open |-> "fresh"]

\* C12 witness: New has returned a pool of MaxSize slots for the stride 1.
C12_Witness ==
    /\ newErr = "nil"
    /\ Len(sharedMap) = MaxSize
    /\ args.spch = 1

\* C13 (as claimed): on the nil *HashQ, on &HashQ{} and on the pool a failed
\* New returned, Get returns an error and no slot, and Clean returns
\* without evicting anything.
C13_UnconstructedPool ==
    hq \in {"nil", "zero"} =>
        /\ \A g \in Getters :
            ret[g].out \in {"none", "error"} /\ ret[g].res = 0
        /\ cleanRet \in {"none", "returned"}
        /\ resource = <<>>

\* C14: on a built pool hq.sharedMap keeps the size Resources of New, no Get
\* panics, and a Get that has returned has returned one of them.
C14_GetReturnsSlot ==
    hq = "built" =>
        /\ sharedMap = [i \in 1..args.size |-> i]
        /\ DOMAIN resource = 1..args.size
        /\ \A g \in Getters :
            /\ ret[g].out \in {"none", "slot"}
            /\ ret[g].out = "slot" => ret[g].res \in {sharedMap[i] : i \in 1..args.size}

\* C14 witness: overlapping Gets and a Clean have run, the estimate has been
\* replaced, and two goroutines have been given different slots.
C14_Witness ==
    /\ overlapped
    /\ cleanRet = "returned"
    /\ curSpeed.incomeFreq # incomeFreqTotal
    /\ \E g, o \in Getters :
        /\ ret[g].out = "slot" /\ ret[o].out = "slot"
        /\ ret[g].res # ret[o].res

\* C15: on a built pool hq.curSpeed.incomeFreq is always positive, and a step
\* changes it only by storing a candidate f that is not zero.
C15_FreqPositive ==
    /\ [](hq = "built" => curSpeed.incomeFreq > 0)
    /\ [][(hq = "built" /\ curSpeed'.incomeFreq # curSpeed.incomeFreq) =>
            \E g \in Getters :
                /\ gpc[g] = "store"
                /\ reg[g].f # 0
                /\ curSpeed'.incomeFreq = reg[g].f]_vars

\* C15 witness: with overlapping Gets and an estimate already replaced, a
\* goroutine is about to test a candidate that is zero.
C15_Witness ==
    /\ overlapped
    /\ curSpeed.incomeFreq # incomeFreqTotal
    /\ \E g \in Getters : gpc[g] = "store" /\ reg[g].f = 0

\* C16: a TryOpen whose Open failed returns the error to its caller with the
\* step that stores the result, and that step changes no handle, active flag,
\* Once or lock of any other slot (so what Lock, TryOpen and Unlock wait for on
\* the other slots is as before).
C16_FailureFrame ==
    [][\A p \in Callers :
        (pc[p] = "opening" /\ pc'[p] = "using") =>
            /\ err'[p] = failedGen'[p]
            /\ err'[p] = (genRes'[slot[p]] = "fail")
            /\ err'[p] =>
                \A t \in Slots \ {slot[p]} :
                    /\ Pt'[t] = Pt[t]
                    /\ active'[t] = active[t]
                    /\ open'[t] = open[t]
                    /\ readers'[t] = readers[t]
                    /\ writer'[t] = writer[t]
                    /\ CanRLock(t)' = CanRLock(t)
                    /\ OnceRuns(open[t])' = OnceRuns(open[t])]_vars

\* C16 witness: a caller holds the error of a failed Open on one slot while
\* another caller uses the handle of a successful Open on another slot.
C16_Witness ==
    \E p, q \in Callers :
        /\ pc[p] = "using" /\ err[p]
        /\ genRes[slot[p]] = "fail"
        /\ slot[q] # slot[p]
        /\ pc[q] = "using" /\ ~err[q]
        /\ genRes[slot[q]] = "ok"
        /\ got[q] = Pt[slot[q]]

\* C17: New returns a pool of max(size, 0) elements.  Produce sends one value
\* on errch and no more; on an empty pool it is an error, no element is
\* sent and Produce returns when the error has been received; on a pool with
\* elements it is nil, sent before any element, and elements are sent only
\* when it has been received.
C17_NewAndProduce ==
    pool # NoPool =>
        /\ Size = (IF csize > 0 THEN csize ELSE 0)
        /\ Len(errLog) <= 1
        /\ ppc # "idle" => Len(errLog) = 1
        /\ Size = 0 =>
            /\ errLog # <<>> => errLog[1].e = "error"
            /\ lastSent = NoSent /\ sch = <<>>
            /\ ppc \in {"idle", "erroring", "returned"}
            /\ (errLog # <<>> /\ errch = "none") => ppc = "returned"
        /\ Size > 0 =>
            /\ errLog # <<>> => errLog[1] = [e |-> "nil", first |-> TRUE]
            /\ lastSent # NoSent => (errLog # <<>> /\ errch = "none")
            /\ ppc \in {"idle", "starting", "loop"}

\* C17 witness: Produce has returned on the pool of New(-1, ...).
C17_Witness ==
    /\ csize < 0
    /\ pool = <<>>
    /\ ppc = "returned"
    /\ errLog = <<[e |-> "error", first |-> TRUE]>>

\* C18: the k-th element Produce sends is h.pool[k mod n], and sch holds the
\* latest elements sent, in that order, so that the receivers take them in it.
C18_RoundRobin ==
    (pool # NoPool /\ lastSent # NoSent) =>
        /\ lastSent.s = pool[lastSent.k + 1]
        /\ sentMod = (lastSent.k + 1) % Size
        /\ \A i \in 1..Len(sch) :
            sch[i] = pool[((sentMod + Size * ChanCap - Len(sch) + i - 1) % Size) + 1]

\* C18 witness: on a pool of MaxPool elements Produce has gone round: two
\* tasks have the same element, sch is full and the first element of the
\* pool was sent last.
C18_Witness ==
    /\ pool # NoPool
    /\ Size = MaxPool
    /\ lastSent.k = 0
    /\ Len(sch) = ChanCap
    /\ \E t, u \in Tasks : t # u /\ tconn[t] = tconn[u] /\ tconn[t] # NoConn

\* C19: a task whose Open has returned and that has not called Release
\* finds 1 <= c.ID <= maxVal on its Conn.
C19_HeldConnHasID ==
    \A t \in Tasks :
        tpc[t] = "holding" => (1 <= ID[tconn[t]] /\ ID[tconn[t]] <= maxVal)

\* C19 witness: two tasks hold the same Conn, opened by one of them, while the
\* Close called by Monitor waits for them.
C19_Witness ==
    \E t, u \in Tasks :
        /\ t # u
        /\ tpc[t] = "holding" /\ tpc[u] = "holding"
        /\ tconn[t] = tconn[u]
        /\ mpc = "wait" /\ pool[mpos] = tconn[t]
        /\ ID[tconn[t]] > 1

\* C20 (as claimed): in a run in which no two Gets overlap, for every stride
\* s >= 1 the n-th Get makes a recalibration attempt exactly when it is the
\* first of s consecutive calls: n = 1, s+1, 2s+1, ...
C20_AttemptEveryStride ==
    \A g \in Getters :
        (hq = "built" /\ ~overlapped /\ ret[g].out = "slot") =>
            (ret[g].tried <=> ((ret[g].n - 1) % curSpeed.speedCheck = 0))

\* C21 (as claimed): a pass of the ticker goroutine that has begun ends,
\* whatever the callers do: a slot held by a caller does not keep it.
C21_PassTerminates ==
    (pc[Sweeper] # "idle") ~> (pc[Sweeper] = "idle")

\* The slot is active, no caller is between Lock and Unlock on it, and it is
\* older than olderPeriod.
Eligible(s) == active[s] /\ readers[s] = {} /\ IsOld(s)

\* C22 (as claimed): a slot that is active, unheld and older than olderPeriod
\* does not stay so for ever: the periodic pass evicts it, also while a caller
\* keeps another slot locked.
C22_OtherSlotEvicted ==
    \A s \in Slots : Eligible(s) ~> ~Eligible(s)

\* C23 (as claimed): a caller inside Lock() waits at RLock only while a
\* Resource.Clean has the exclusive lock, that is with no reader in; callers
\* that are in, also with a Clean waiting for them, never make it wait.
C23_LockWaitsOnlyForHolder ==
    \A p \in Callers :
        (pc[p] = "rlock" /\ ~CanRLock(slot[p])) => readers[slot[p]] = {}

\* C24 (as claimed): res.Pt is the template or the handle of a successful
\* Open of the current generation, it differs from the template only while
\* res.active, and no caller between Lock and Unlock has got an opened
\* handle of a slot that is not active.
C24_HandleInvariant ==
    \A s \in Slots :
        /\ Pt[s] = emptyPt \/ genRes[s] = "ok"
        /\ Pt[s] # emptyPt => active[s]
        /\ \A p \in Callers :
            (Holds(p, s) /\ HasResult(p) /\ got[p] # emptyPt) => active[s]

\* C25 (as claimed): every Close that Resource.Clean calls is on a handle that
\* an Open of the generation being ended has stored, never on the template, so
\* that each generation has at most one Close and one Open before it.
C25_ReleaseAfterAcquire ==
    Cleaned => lastClean.pt # emptyPt

\* C26 (as claimed): when no Get is in progress, curSpeed.Sum equals the
\* number of Get calls that have gone through genHash: no increment of
\* concurrent Get calls is lost.
C26_SumCountsGets ==
    (hq = "built" /\ ~Panicked /\ \A g \in Getters : gpc[g] = "idle")
        => curSpeed.Sum = calls

\* C27 (as claimed): while incomeFreq still holds the seed incomeFreqTotal
\* every Get that returned a Resource returned the first one, sharedMap[0],
\* and the first Get call does not reach the recalibration.
C27_ColdStartSlotZero ==
    \A g \in Getters :
        /\ (curSpeed.incomeFreq = incomeFreqTotal /\ ret[g].out = "slot")
               => ret[g].res = sharedMap[1]
        /\ ret[g].n = 1 => ~ret[g].tried

\* A step of a Get call: of the goroutines calling hq.Get() on the pool of
\* New, or of a caller receiving its Resource from hq.Get().
GetStep ==
    \/ \E g \in Getters : gpc'[g] # gpc[g] \/ ret'[g] # ret[g]
    \/ \E p \in Callers : pc[p] = "idle" /\ pc'[p] = "lock"

\* C29: a step of Get changes nothing but Sum, Last and incomeFreq of
\* hq.curSpeed: Start and speedCheck, the slice of Resources and the Pt,
\* active, open, mutex and modified of every Resource stay as they are, and
\* a Resource that was due for cleaning (active, not held, older than
\* olderPeriod) is still due after the step.
C29_GetFrame ==
    [][GetStep =>
          /\ curSpeed'.Start = curSpeed.Start
          /\ curSpeed'.speedCheck = curSpeed.speedCheck
          /\ UNCHANGED <<sharedMap, resource, maxShared>>
          /\ UNCHANGED slotVars
          /\ \A s \in Slots : Eligible(s) => Eligible(s)']_vars

\* C29 witness: a Get has returned a Resource after the clock has left Start
\* and the estimate incomeFreq has been replaced.
C29_Witness ==
    /\ hq = "built"
    /\ \E g \in Getters : gpc[g] = "idle" /\ ret[g].out = "slot"
    /\ curSpeed.incomeFreq # incomeFreqTotal
    /\ curSpeed.Last # curSpeed.Start

\* C28 (as claimed): in a stream of Get calls at a constant rate, once
\* RateWindow calls have found incomeFreq replaced by an estimate, every
\* index 0..maxShared-1 has been returned by one of them.
C28_AllSlotsReturned ==
    since >= RateWindow => visited = 0..(maxShared - 1)

\* C30 (as claimed): a pass of Monitor visits the elements of h.pool in
\* order, each index once, and a finished pass has visited them all; it
\* calls Close only where CanClose has just returned true; an element for
\* which CanClose returned false is not closed later in that pass; h.pool
\* is the pool New built.
C30_MonitorPass ==
    /\ Len(vlog) <= Len(hpool)
    /\ \A i \in DOMAIN vlog : vlog[i].elem = hpool[i]
    /\ (vpc = "wait" /\ vlog # <<>>) => Len(vlog) = Len(hpool)
    /\ \A i \in DOMAIN vlog : vlog[i].closed => vlog[i].can
    /\ \A i, j \in DOMAIN vlog :
          (i < j /\ ~vlog[i].can /\ vlog[j].elem = vlog[i].elem) => ~vlog[j].closed
    /\ hpool = NewPool(Len(hpool), TheEmpty)

============================================================================
